---- MODULE Spec2Model ----
(* curvipy/_curve.py: Function, ParametricFunction and TransformedCurve, and  *)
(* the execution of one points(interval) call after another on a curve object. *)
(* Numbers are integers (Python ints), on which the arithmetic is exact.       *)
EXTENDS Integers, Sequences, FiniteSets, TLC

VARIABLES curve, interval, stack, exc, outcome, calls, iters, returns,
          constructed, passed, earlier

vars == <<curve, interval, stack, exc, outcome, calls, iters, returns,
          constructed, passed, earlier>>

----------------------------------------------------------------------------
(* Bounds *)

\* deepest nesting of TransformedCurve around a Function / ParametricFunction
MaxDepth == 2
\* largest end of an interval
MaxEnd == 1

----------------------------------------------------------------------------
(* Python values *)

\* a Python tuple (a, b) and a Python list [a, b]: equal only to a value of the
\* same type with the same items, as Python's == has it
Tuple(a, b) == [type |-> "tuple", items |-> <<a, b>>]
List(a, b) == [type |-> "list", items |-> <<a, b>>]

\* point[k], k = 0 or 1
Item(point, k) == point.items[k + 1]

\* matrix[r][c], r and c = 0 or 1, of a tuple of two tuples
Entry(matrix, r, c) == matrix[r + 1][c + 1]

----------------------------------------------------------------------------
(* Interval: the iteration contract the curves consume *)

Intervals ==
    [start : {-1, 0}, end : -1..MaxEnd, step : {1, 2}]

NoInterval == [start |-> 0, end |-> 0, step |-> 0]

RECURSIVE SamplesFrom(_, _, _)
SamplesFrom(x, end, step) ==
    IF x > end THEN <<>> ELSE <<x>> \o SamplesFrom(x + step, end, step)

\* the finite, ordered sample sequence of an interval
Samples(iv) ==
    IF iv.step <= 0 THEN <<>> ELSE SamplesFrom(iv.start, iv.end, iv.step)

\* iter(interval): a fresh traversal; the interval itself stays as it is
IterInterval(iv) == iv

----------------------------------------------------------------------------
(* The user-supplied callables, deterministic, some of them partial *)

Value(v) == [ok |-> TRUE, val |-> v, exc |-> ""]
Failure(e) == [ok |-> FALSE, val |-> 0, exc |-> e]

ScalarFunctions == {"affine", "reciprocal", "log"}
VectorFunctions == {"line", "hyperbola"}

\* self.function(x) / self.parametric_function(t)
Apply(f, x) ==
    CASE f = "affine" -> Value(2 * x + 1)
      [] f = "reciprocal" ->
            IF x = 0 THEN Failure("ZeroDivisionError") ELSE Value(2 \div x)
      [] f = "log" ->
            IF x <= 0 THEN Failure("ValueError") ELSE Value(x - 1)
      [] f = "line" -> Value(Tuple(1 - x, 2 * x))
      [] f = "hyperbola" ->
            IF x = 0 THEN Failure("ZeroDivisionError")
            ELSE Value(Tuple(x, 2 \div x))

----------------------------------------------------------------------------
(* Curve objects *)

Identity == <<<<1, 0>>, <<0, 1>>>>
Matrices == {Identity, <<<<0, -1>>, <<1, 0>>>>, <<<<1, 2>>, <<3, 4>>>>}

\* Function.__init__
Function(f) == [cls |-> "Function", function |-> f]

\* ParametricFunction.__init__
ParametricFunction(g) ==
    [cls |-> "ParametricFunction", parametric_function |-> g]

\* TransformedCurve.__init__
TransformedCurve(matrix, c) ==
    [cls |-> "TransformedCurve", curve |-> c, matrix |-> matrix]

RECURSIVE Curves(_)
Curves(d) ==
    IF d = 0
    THEN {Function(f) : f \in ScalarFunctions}
         \cup {ParametricFunction(g) : g \in VectorFunctions}
    ELSE Curves(d - 1)
         \cup {TransformedCurve(m, c) : m \in Matrices, c \in Curves(d - 1)}

----------------------------------------------------------------------------
(* The statements of the three points methods *)

\* the element expression (x, self.function(x)), y the value of self.function(x)
FunctionElementSwapped(x, y) == Tuple(y, x)
FunctionElement(x, y) == Tuple(x, y)

\* the element expression self.parametric_function(t), v its value
ParametricElementWithSample(t, v) == Tuple(t, Item(v, 1))
ParametricElement(t, v) == v

\* the list appended for one point of the wrapped curve
TransformPointTransposed(matrix, point) ==
    List(Item(point, 0) * Entry(matrix, 0, 0) + Item(point, 1) * Entry(matrix, 1, 0),
         Item(point, 0) * Entry(matrix, 0, 1) + Item(point, 1) * Entry(matrix, 1, 1))
TransformPointFirstTwice(matrix, point) ==
    List(Item(point, 0) * Entry(matrix, 0, 0) + Item(point, 1) * Entry(matrix, 0, 1),
         Item(point, 0) * Entry(matrix, 1, 0) + Item(point, 0) * Entry(matrix, 1, 1))
TransformPoint(matrix, point) ==
    List(Item(point, 0) * Entry(matrix, 0, 0) + Item(point, 1) * Entry(matrix, 0, 1),
         Item(point, 0) * Entry(matrix, 1, 0) + Item(point, 1) * Entry(matrix, 1, 1))

\* points.append(p)
AppendPointInFront(points, p) == <<p>> \o points
AppendPoint(points, p) == Append(points, p)

\* one invocation of the user-supplied callable on x, in the log of the call
InvokeTwice(log, x) == Append(Append(log, x), x)
Invoke(log, x) == Append(log, x)

----------------------------------------------------------------------------
(* State *)

NoOutcome == [kind |-> "none", value |-> <<>>, exc |-> ""]
Returned(value) == [kind |-> "return", value |-> value, exc |-> ""]
Raised(e) == [kind |-> "raise", value |-> <<>>, exc |-> e]

\* a frame of a points method: self, its position, its local list, the list it
\* loops over and how many elements the loop or the iterator has consumed
Frame(self) == [self |-> self, pc |-> "start", points |-> <<>>, P |-> <<>>, i |-> 0]

Top == stack[Len(stack)]
Below == SubSeq(stack, 1, Len(stack) - 1)
Running == stack # <<>>
Finished == stack = <<>> /\ outcome.kind # "none"

Init ==
    /\ curve \in Curves(MaxDepth)
    /\ constructed = curve
    /\ interval = NoInterval
    /\ passed = NoInterval
    /\ stack = <<>>
    /\ exc = ""
    /\ outcome = NoOutcome
    /\ calls = <<>>
    /\ iters = 0
    /\ returns = <<>>
    /\ earlier = [interval |-> NoInterval, outcome |-> NoOutcome]

----------------------------------------------------------------------------
(* One points(interval) call after another *)

SetTop(f) == [stack EXCEPT ![Len(stack)] = f]

\* return value: the frame is left and the caller's for loop starts on the value
ReturnValue(value) ==
    /\ returns' = Append(returns, value)
    /\ IF Len(stack) = 1
       THEN /\ stack' = <<>>
            /\ outcome' = Returned(value)
       ELSE /\ stack' = [Below EXCEPT ![Len(stack) - 1] =
                            [@ EXCEPT !.pc = "loop", !.P = value, !.i = 0]]
            /\ outcome' = outcome

\* an exception e leaves the frame: no points method has a handler
RaiseFrom(e) ==
    /\ exc' = e
    /\ stack' = Below
    /\ outcome' = IF Len(stack) = 1 THEN Raised(e) ELSE outcome

\* the caller calls curve.points(iv) with an interval of its own
Call ==
    \E iv \in Intervals, keep \in BOOLEAN :
        /\ ~Running
        /\ interval' = iv
        /\ passed' = iv
        /\ earlier' = IF Finished /\ keep
                      THEN [interval |-> interval, outcome |-> outcome]
                      ELSE earlier
        /\ stack' = <<Frame(curve)>>
        /\ exc' = ""
        /\ outcome' = NoOutcome
        /\ calls' = <<>>
        /\ iters' = 0
        /\ returns' = <<>>
        /\ UNCHANGED <<curve, constructed>>

\* Function.points: the comprehension starts, iter(interval)
FunctionIter ==
    /\ Running /\ Top.self.cls = "Function" /\ Top.pc = "start"
    /\ interval' = IterInterval(interval)
    /\ iters' = iters + 1
    /\ stack' = SetTop([Top EXCEPT !.pc = "for", !.i = 0])
    /\ UNCHANGED <<curve, exc, outcome, calls, returns, constructed, passed, earlier>>

\* Function.points: the next sample x, (x, self.function(x))
FunctionNext ==
    /\ Running /\ Top.self.cls = "Function" /\ Top.pc = "for"
    /\ Top.i < Len(Samples(interval))
    /\ LET x == Samples(interval)[Top.i + 1]
           r == Apply(Top.self.function, x)
       IN  /\ calls' = Invoke(calls, x)
           /\ IF r.ok
              THEN /\ stack' = SetTop([Top EXCEPT
                          !.points = Append(@, FunctionElement(x, r.val)),
                          !.i = @ + 1])
                   /\ UNCHANGED <<exc, outcome>>
              ELSE RaiseFrom(r.exc)
    /\ UNCHANGED <<curve, interval, iters, returns, constructed, passed, earlier>>

\* Function.points: the samples are exhausted, the list is returned
FunctionReturn ==
    /\ Running /\ Top.self.cls = "Function" /\ Top.pc = "for"
    /\ Top.i = Len(Samples(interval))
    /\ ReturnValue(Top.points)
    /\ UNCHANGED <<curve, interval, exc, calls, iters, constructed, passed, earlier>>

\* ParametricFunction.points: the comprehension starts, iter(interval)
ParametricFunctionIter ==
    /\ Running /\ Top.self.cls = "ParametricFunction" /\ Top.pc = "start"
    /\ interval' = IterInterval(interval)
    /\ iters' = iters + 1
    /\ stack' = SetTop([Top EXCEPT !.pc = "for", !.i = 0])
    /\ UNCHANGED <<curve, exc, outcome, calls, returns, constructed, passed, earlier>>

\* ParametricFunction.points: the next sample t, self.parametric_function(t)
ParametricFunctionNext ==
    /\ Running /\ Top.self.cls = "ParametricFunction" /\ Top.pc = "for"
    /\ Top.i < Len(Samples(interval))
    /\ LET t == Samples(interval)[Top.i + 1]
           r == Apply(Top.self.parametric_function, t)
       IN  /\ calls' = Invoke(calls, t)
           /\ IF r.ok
              THEN /\ stack' = SetTop([Top EXCEPT
                          !.points = Append(@, ParametricElement(t, r.val)),
                          !.i = @ + 1])
                   /\ UNCHANGED <<exc, outcome>>
              ELSE RaiseFrom(r.exc)
    /\ UNCHANGED <<curve, interval, iters, returns, constructed, passed, earlier>>

\* ParametricFunction.points: the samples are exhausted, the list is returned
ParametricFunctionReturn ==
    /\ Running /\ Top.self.cls = "ParametricFunction" /\ Top.pc = "for"
    /\ Top.i = Len(Samples(interval))
    /\ ReturnValue(Top.points)
    /\ UNCHANGED <<curve, interval, exc, calls, iters, constructed, passed, earlier>>

\* as TransformedCurveDelegate, but walking the interval itself beside the
\* wrapped curve's list
TransformedCurveDelegateIterating ==
    /\ Running /\ Top.self.cls = "TransformedCurve" /\ Top.pc = "start"
    /\ interval' = IterInterval(interval)
    /\ iters' = iters + 1
    /\ stack' = Append(SetTop([Top EXCEPT !.points = <<>>, !.pc = "call"]),
                       Frame(Top.self.curve))
    /\ UNCHANGED <<curve, exc, outcome, calls, returns, constructed, passed, earlier>>

\* TransformedCurve.points: points = [], then self.__curve.points(interval) is
\* called with the interval it was given
TransformedCurveDelegate ==
    /\ Running /\ Top.self.cls = "TransformedCurve" /\ Top.pc = "start"
    /\ stack' = Append(SetTop([Top EXCEPT !.points = <<>>, !.pc = "call"]),
                       Frame(Top.self.curve))
    /\ UNCHANGED <<curve, interval, exc, outcome, calls, iters, returns,
                   constructed, passed, earlier>>

\* TransformedCurve.points: the loop body on the next point of the wrapped
\* curve's list
TransformedCurveLoop ==
    /\ Running /\ Top.self.cls = "TransformedCurve" /\ Top.pc = "loop"
    /\ Top.i < Len(Top.P)
    /\ stack' = SetTop([Top EXCEPT
           !.points = AppendPoint(@, TransformPoint(Top.self.matrix, Top.P[Top.i + 1])),
           !.i = @ + 1])
    /\ UNCHANGED <<curve, interval, exc, outcome, calls, iters, returns,
                   constructed, passed, earlier>>

\* as TransformedCurveReturn, but rebinding the matrix of the called object
TransformedCurveReturnRebinding ==
    /\ Running /\ Top.self.cls = "TransformedCurve" /\ Top.pc = "loop"
    /\ Top.i = Len(Top.P)
    /\ ReturnValue(Top.points)
    /\ curve' = IF Len(stack) = 1
                THEN [curve EXCEPT !.matrix = <<@[2], @[1]>>]
                ELSE curve
    /\ UNCHANGED <<interval, exc, calls, iters, constructed, passed, earlier>>

\* TransformedCurve.points: return points
TransformedCurveReturn ==
    /\ Running /\ Top.self.cls = "TransformedCurve" /\ Top.pc = "loop"
    /\ Top.i = Len(Top.P)
    /\ ReturnValue(Top.points)
    /\ UNCHANGED <<curve, interval, exc, calls, iters, constructed, passed, earlier>>

\* as TransformedCurveRaise, but handling the exception and going on with the
\* empty list
TransformedCurveRaiseHandled ==
    /\ Running /\ Top.self.cls = "TransformedCurve" /\ Top.pc = "call"
    /\ exc # ""
    /\ exc' = ""
    /\ stack' = SetTop([Top EXCEPT !.pc = "loop", !.P = <<>>, !.i = 0])
    /\ UNCHANGED <<curve, interval, outcome, calls, iters, returns, constructed,
                   passed, earlier>>

\* TransformedCurve.points: the wrapped curve's points call raised; the
\* exception passes through
TransformedCurveRaise ==
    /\ Running /\ Top.self.cls = "TransformedCurve" /\ Top.pc = "call"
    /\ exc # ""
    /\ RaiseFrom(exc)
    /\ UNCHANGED <<curve, interval, calls, iters, returns, constructed, passed, earlier>>

Next ==
    \/ Call
    \/ FunctionIter
    \/ FunctionNext
    \/ FunctionReturn
    \/ ParametricFunctionIter
    \/ ParametricFunctionNext
    \/ ParametricFunctionReturn
    \/ TransformedCurveDelegate
    \/ TransformedCurveLoop
    \/ TransformedCurveReturn
    \/ TransformedCurveRaise

Spec == Init /\ [][Next]_vars

----------------------------------------------------------------------------
(* Vocabulary of the properties *)

\* the curve objects of a curve, innermost first
RECURSIVE Chain(_)
Chain(c) ==
    IF c.cls = "TransformedCurve" THEN Append(Chain(c.curve), c) ELSE <<c>>

\* the Function or ParametricFunction at the core of a curve, and its callable
Base(c) == Chain(c)[1]
Callable(c) ==
    IF Base(c).cls = "Function"
    THEN Base(c).function
    ELSE Base(c).parametric_function

\* the samples of the interval the caller passed
Xs == Samples(passed)

Succeeds(f, xs) == \A i \in 1..Len(xs) : Apply(f, xs[i]).ok

\* index of the first sample the callable fails on, 0 when there is none
FirstFailure(f, xs) ==
    IF Succeeds(f, xs)
    THEN 0
    ELSE CHOOSE k \in 1..Len(xs) :
            /\ ~Apply(f, xs[k]).ok
            /\ \A j \in 1..(k - 1) : Apply(f, xs[j]).ok

\* the product A x B of two 2x2 matrices
MatMul(A, B) ==
    [r \in 1..2 |-> [c \in 1..2 |-> A[r][1] * B[1][c] + A[r][2] * B[2][c]]]

\* the point a curve derives from one sample x
RECURSIVE PointAt(_, _)
PointAt(c, x) ==
    CASE c.cls = "Function" -> FunctionElement(x, Apply(c.function, x).val)
      [] c.cls = "ParametricFunction" ->
            ParametricElement(x, Apply(c.parametric_function, x).val)
      [] c.cls = "TransformedCurve" ->
            TransformPoint(c.matrix, PointAt(c.curve, x))

ReturnedOk == Finished /\ outcome.kind = "return"

----------------------------------------------------------------------------
(* Properties *)

\* C1: when f succeeds on all samples of the interval, Function(f).points
\* returns one point per sample, the i-th being the pair (x_i, f(x_i)) of the
\* i-th sample, so the x-coordinates are the samples in their order; this holds
\* of a Function called directly and of one wrapped in TransformedCurves.
C1_FunctionPoints ==
    LET F == Base(curve)
    IN  (F.cls = "Function" /\ Succeeds(F.function, Xs))
          => /\ Finished => /\ outcome.kind = "return"
                            /\ curve.cls = "Function" => outcome.value = returns[1]
             /\ returns # <<>> =>
                  /\ Len(returns[1]) = Len(Xs)
                  /\ \A i \in 1..Len(Xs) :
                        returns[1][i] = Tuple(Xs[i], Apply(F.function, Xs[i]).val)
                  /\ \A i \in 1..(Len(Xs) - 1) :
                        Xs[i] < Xs[i + 1]
                            => Item(returns[1][i], 0) < Item(returns[1][i + 1], 0)

C1_Witness ==
    /\ curve.cls = "Function" /\ ReturnedOk
    /\ Len(outcome.value) >= 2

\* C2: when g succeeds on all samples, ParametricFunction(g).points returns
\* exactly [g(t) for t in I]: the i-th point is g of the i-th sample, unchanged,
\* called directly or wrapped in TransformedCurves.
C2_ParametricPoints ==
    LET G == Base(curve)
    IN  (G.cls = "ParametricFunction" /\ Succeeds(G.parametric_function, Xs))
          => /\ Finished => /\ outcome.kind = "return"
                            /\ curve.cls = "ParametricFunction"
                                  => outcome.value = returns[1]
             /\ returns # <<>> =>
                  /\ Len(returns[1]) = Len(Xs)
                  /\ \A i \in 1..Len(Xs) :
                        returns[1][i] = Apply(G.parametric_function, Xs[i]).val

C2_Witness ==
    /\ curve.cls = "ParametricFunction" /\ ReturnedOk
    /\ Len(outcome.value) >= 2
    /\ Item(outcome.value[1], 0) # Xs[1]

\* C3: at every nesting level, the list a TransformedCurve returns is as long as
\* the list P its wrapped curve returned, and its i-th point has the coordinates
\* px*M[0][0] + py*M[0][1] and px*M[1][0] + py*M[1][1] of the i-th point of P.
C3_TransformedPoints ==
    /\ \A j \in 2..Len(returns) :
          LET M == Chain(curve)[j].matrix
              P == returns[j - 1]
              Q == returns[j]
          IN  /\ Len(Q) = Len(P)
              /\ \A i \in 1..Len(P) :
                    /\ Item(Q[i], 0) = Item(P[i], 0) * Entry(M, 0, 0)
                                       + Item(P[i], 1) * Entry(M, 0, 1)
                    /\ Item(Q[i], 1) = Item(P[i], 0) * Entry(M, 1, 0)
                                       + Item(P[i], 1) * Entry(M, 1, 1)
    /\ ReturnedOk => outcome.value = returns[Len(returns)]

C3_Witness ==
    /\ ReturnedOk /\ curve.cls = "TransformedCurve"
    /\ curve.matrix = <<<<1, 2>>, <<3, 4>>>>
    /\ Len(outcome.value) >= 2

\* C4: TransformedCurve(((1,0),(0,1)), C).points(I) equals C.points(I), the list
\* the wrapped curve returned.
C4_IdentityEquals ==
    (ReturnedOk /\ curve.cls = "TransformedCurve" /\ curve.matrix = Identity)
        => outcome.value = returns[Len(returns) - 1]

\* What does hold of the identity matrix: same length and same coordinates, and
\* equal lists when the wrapped curve is a TransformedCurve or there is no sample.
C4_IdentityCoordinates ==
    (ReturnedOk /\ curve.cls = "TransformedCurve" /\ curve.matrix = Identity)
        => LET P == returns[Len(returns) - 1]
           IN  /\ Len(outcome.value) = Len(P)
               /\ \A i \in 1..Len(P) : outcome.value[i].items = P[i].items
               /\ (curve.curve.cls = "TransformedCurve" \/ Xs = <<>>)
                     => outcome.value = P

\* C5: TransformedCurve(M2, TransformedCurve(M1, C)).points(I) equals
\* TransformedCurve(M2 x M1, C).points(I), the points of C.points(I) each
\* transformed by the product matrix.
C5_Composition ==
    (ReturnedOk /\ curve.cls = "TransformedCurve"
                /\ curve.curve.cls = "TransformedCurve")
        => LET P == returns[Len(returns) - 2]
               M == MatMul(curve.matrix, curve.curve.matrix)
           IN  outcome.value = [i \in 1..Len(P) |-> TransformPoint(M, P[i])]

C5_Witness ==
    /\ ReturnedOk /\ curve.cls = "TransformedCurve"
    /\ curve.curve.cls = "TransformedCurve"
    /\ MatMul(curve.matrix, curve.curve.matrix)
         # MatMul(curve.curve.matrix, curve.matrix)
    /\ Len(outcome.value) >= 2

\* C6: when the callable fails on the k-th sample, it is evaluated on the first
\* k samples only, no points method returns a list and no point is transformed,
\* and the call ends in that very failure, at any nesting depth.
C6_FailurePropagation ==
    LET k == FirstFailure(Callable(curve), Xs)
    IN  k > 0 =>
          /\ Len(calls) <= k
          /\ returns = <<>>
          /\ \A n \in 1..Len(stack) : stack[n].points # <<>> => n = Len(stack)
          /\ \A n \in 1..Len(stack) :
                stack[n].self.cls = "TransformedCurve" => stack[n].points = <<>>
          /\ Finished =>
                /\ outcome = Raised(Apply(Callable(curve), Xs[k]).exc)
                /\ calls = SubSeq(Xs, 1, k)

C6_Witness ==
    /\ Finished /\ outcome.kind = "raise"
    /\ Len(Chain(curve)) = 3
    /\ FirstFailure(Callable(curve), Xs) = 2
    /\ Len(Xs) = 3

\* C7: every list a points method returns, at every nesting level, has one
\* element per sample of the interval, the i-th derived from the i-th sample;
\* an empty interval yields the empty list.
C7_LengthAndOrder ==
    /\ \A j \in 1..Len(returns) :
          /\ Len(returns[j]) = Len(Xs)
          /\ \A i \in 1..Len(Xs) : returns[j][i] = PointAt(Chain(curve)[j], Xs[i])
    /\ ReturnedOk =>
          /\ Len(returns) = Len(Chain(curve))
          /\ outcome.value = returns[Len(returns)]
          /\ Xs = <<>> => outcome.value = <<>>

C7_Witness ==
    /\ ReturnedOk /\ Len(Chain(curve)) = 3
    /\ Len(outcome.value) = 3
    /\ outcome.value[1] # outcome.value[3]

\* the empty-interval case of C7 at the deepest nesting
C7_WitnessEmpty ==
    ReturnedOk /\ Len(Chain(curve)) = 3 /\ Xs = <<>>

\* C8: during and after a points call the interval is the one the caller
\* passed, and its sample sequence is iterated once per call, by the innermost
\* Function or ParametricFunction, also when the call fails.
C8_IntervalUntouched ==
    /\ interval = passed
    /\ iters <= 1
    /\ Finished => iters = 1
    /\ \A n \in 1..Len(stack) :
          stack[n].self.cls = "TransformedCurve" /\ stack[n].pc = "call" /\ n = Len(stack)
              => iters = 1

C8_Witness ==
    /\ Finished /\ outcome.kind = "raise"
    /\ Len(Chain(curve)) = 3
    /\ iters = 1

\* C9: the curve object stays as constructed over any sequence of calls, and a
\* call on an interval with the samples of an earlier call ends as that call did.
C9_Repeatable ==
    /\ curve = constructed
    /\ (Finished /\ earlier.outcome.kind # "none"
                 /\ Samples(earlier.interval) = Samples(interval))
          => outcome = earlier.outcome

C9_Witness ==
    /\ Finished /\ earlier.outcome.kind = "return"
    /\ earlier.interval = interval
    /\ curve.cls = "TransformedCurve"
    /\ Len(outcome.value) >= 2

\* C10: the callable is invoked on the samples in their order, once each, and by
\* the time a TransformedCurve loops over the wrapped curve's list the callable
\* has been invoked on every sample.
C10_EvaluationOrder ==
    /\ Len(calls) <= Len(Xs)
    /\ calls = SubSeq(Xs, 1, Len(calls))
    /\ ReturnedOk => calls = Xs
    /\ \A n \in 1..Len(stack) :
          (stack[n].self.cls = "TransformedCurve"
              /\ (stack[n].pc = "loop" \/ stack[n].points # <<>>))
              => calls = Xs

C10_Witness ==
    /\ Running /\ Len(stack) = 2
    /\ Top.pc = "loop" /\ Top.i = 1
    /\ Len(calls) = 3

====
